---- MODULE Spec2Model ----
\* Model of maddr: the multiaddr Segment / MultiAddr types, the binary codec
\* (write.rs, read.rs) and the text codec (display.rs, parse.rs).
\*
\* Representation.
\*   byte      an integer 0..255
\*   char      a one-character string; "U+00E9" stands for one two-byte char
\*   String    a sequence of chars
\*   Segment   [tag |-> variant name, arg |-> sequence of integers]
\*               ports   <<port>>           IP4  four octets
\*               IP6     eight 16-bit groups
\*               Ipfs    <<hash tag>> \o digest bytes
\*               Http, Https, Udt, Utp   <<>>
\*   MultiAddr the sequence of its segments (the only field of the struct)
\*   result    [kind |-> "Ok" | "Err" | "Panic", val, err, tok]
EXTENDS Integers, Sequences, FiniteSets, TLC

\* State of one use of the library.
\*   addr   the MultiAddr value being built and then encoded or split
\*   buf    the byte buffer written to and read from
\*   str    the String rendered to and parsed from
\*   trail  what the caller appended to buf (bytes) or str (text pieces)
\*   edit   how the caller altered buf: [kind, n] with kind "none", "cut"
\*          (n bytes dropped from the end), "bump" (byte n incremented) or
\*          "recode" (leading code replaced by n)
\*   src    which operation produced the current input: "none", "bin",
\*          "text", "split", "add", "blob"
\*   res    the result of the decoding or splitting call, NoRes before it
VARIABLES addr, buf, str, trail, edit, src, res

vars == <<addr, buf, str, trail, edit, src, res>>

\* ---------------------------------------------------------------- bounds
\* Segments of an address plus the caller's alterations of an encoded input
\* (bytes or text pieces appended, a truncation, a changed byte).
MaxItems == 2

\* Codes 0..MaxCode are tried in place of a segment's code.
MaxCode == 500

\* Longest byte blob offered as an ipfs payload.
MaxBlob == 4

\* ------------------------------------------------------- generic helpers
Min(a, b) == IF a < b THEN a ELSE b

Drop(s, n) == SubSeq(s, n + 1, Len(s))

Take(s, n) == SubSeq(s, 1, Min(n, Len(s)))

RECURSIVE Pow2(_)
Pow2(n) == IF n = 0 THEN 1 ELSE 2 * Pow2(n - 1)

RECURSIVE Flatten(_)
Flatten(ss) == IF ss = <<>> THEN <<>> ELSE Head(ss) \o Flatten(Tail(ss))

\* ------------------------------------------------------- segment.rs
PortTags == {"Dccp", "Sctp", "Tcp", "Udp"}

BareTags == {"Http", "Https", "Udt", "Utp"}

Tags == PortTags \cup BareTags \cup {"IP4", "IP6", "Ipfs"}

Seg(tag, arg) == [tag |-> tag, arg |-> arg]

\* Segment::code
code(s) ==
    CASE s.tag = "Dccp"  -> 33
      [] s.tag = "Http"  -> 480
      [] s.tag = "Https" -> 443
      [] s.tag = "IP4"   -> 4
      [] s.tag = "IP6"   -> 41
      [] s.tag = "Ipfs"  -> 421
      [] s.tag = "Sctp"  -> 132
      [] s.tag = "Tcp"   -> 6
      [] s.tag = "Udp"   -> 17
      [] s.tag = "Udt"   -> 301
      [] s.tag = "Utp"   -> 302

\* Segment::name
name(s) ==
    CASE s.tag = "Dccp"  -> <<"d", "c", "c", "p">>
      [] s.tag = "Http"  -> <<"h", "t", "t", "p">>
      [] s.tag = "Https" -> <<"h", "t", "t", "p", "s">>
      [] s.tag = "IP4"   -> <<"i", "p", "4">>
      [] s.tag = "IP6"   -> <<"i", "p", "6">>
      [] s.tag = "Ipfs"  -> <<"i", "p", "f", "s">>
      [] s.tag = "Sctp"  -> <<"s", "c", "t", "p">>
      [] s.tag = "Tcp"   -> <<"t", "c", "p">>
      [] s.tag = "Udp"   -> <<"u", "d", "p">>
      [] s.tag = "Udt"   -> <<"u", "d", "t">>
      [] s.tag = "Utp"   -> <<"u", "t", "p">>

\* Payload values the addresses are built from.
Ports == {22, 4001}

IP4s == {<<1, 2, 3, 4>>, <<104, 131, 0, 82>>}

IP6s == {<<10754, 1720, 0, 0, 0, 0, 17, 17>>, <<1, 0, 0, 2, 0, 0, 0, 65535>>}

\* Multihash values: <<algorithm tag>> \o digest (digests kept short).
Hashes == {<<17, 213>>, <<18, 0, 46>>}

Segments ==
    {Seg(t, <<p>>) : t \in PortTags, p \in Ports}
        \cup {Seg(t, <<>>) : t \in BareTags}
        \cup {Seg("IP4", a) : a \in IP4s}
        \cup {Seg("IP6", a) : a \in IP6s}
        \cup {Seg("Ipfs", h) : h \in Hashes}

\* One segment per variant, used to quantify over the variants.
Variant(t) == CHOOSE s \in Segments : s.tag = t

\* ------------------------------------------------------- results
Ok(v) == [kind |-> "Ok", val |-> v, err |-> "", tok |-> <<>>]

Err(e) == [kind |-> "Err", val |-> <<>>, err |-> e, tok |-> <<>>]

ErrTok(e, t) == [kind |-> "Err", val |-> <<>>, err |-> e, tok |-> t]

Panic == [kind |-> "Panic", val |-> <<>>, err |-> "", tok |-> <<>>]

NoRes == [kind |-> "None", val |-> <<>>, err |-> "", tok |-> <<>>]

\* A read from a stream: the value and the bytes not yet consumed.
ROk(v, rest) == [kind |-> "Ok", val |-> v, rest |-> rest, err |-> ""]

RErr(e) == [kind |-> "Err", val |-> <<>>, rest |-> <<>>, err |-> e]

REnd == [kind |-> "End", val |-> <<>>, rest |-> <<>>, err |-> ""]

\* io::Read::read_exact on a stream holding s: n bytes, or UnexpectedEof.
read_exact(s, n) ==
    IF Len(s) < n THEN RErr("UnexpectedEof") ELSE ROk(SubSeq(s, 1, n), Drop(s, n))

\* ------------------------------------------------------- varint collaborator
\* Base-128, least significant group first, top bit set on all but the last.
RECURSIVE write_u64_varint(_)
write_u64_varint(n) ==
    IF n < 128 THEN <<n>> ELSE <<128 + (n % 128)>> \o write_u64_varint(n \div 128)

\* Values of 2^28 and more are kept as 2^28: every use below only compares the
\* value with the code table or with the number of bytes left in a buffer.
VarintCap == Pow2(28)

RECURSIVE varint_groups(_, _, _)
varint_groups(s, k, acc) ==
    IF s = <<>> THEN RErr("UnexpectedEof")
    ELSE LET b == Head(s)
             g == b % 128
             v == IF g = 0 THEN acc
                  ELSE IF k > 3 THEN VarintCap
                  ELSE Min(acc + g * Pow2(7 * k), VarintCap)
         IN  IF b < 128 THEN ROk(v, Tail(s)) ELSE varint_groups(Tail(s), k + 1, v)

\* read_u64_varint: end of stream anywhere is an error.
read_u64_varint(s) == varint_groups(s, 0, 0)

\* try_read_u64_varint: end of stream before the first byte is "no value".
try_read_u64_varint(s) == IF s = <<>> THEN REnd ELSE varint_groups(s, 0, 0)

\* ------------------------------------------------------- multihash collaborator
HashTags == {17, 18}

digest(h) == Tail(h)

\* write_multihash: varint tag, varint digest length, digest bytes.
write_multihash(h) ==
    write_u64_varint(h[1]) \o write_u64_varint(Len(digest(h))) \o digest(h)

\* MultiHash::output_len: the length of the whole encoding.
output_len(h) ==
    Len(write_u64_varint(h[1])) + Len(write_u64_varint(Len(digest(h)))) + Len(digest(h))

\* read_multihash: reads exactly one hash encoding from the front of s.
read_multihash(s) ==
    LET t == read_u64_varint(s)
    IN  IF t.kind # "Ok" THEN RErr(t.err)
        ELSE IF t.val \notin HashTags THEN RErr("Invalid multihash")
        ELSE LET n == read_u64_varint(t.rest)
             IN  IF n.kind # "Ok" THEN RErr(n.err)
                 ELSE LET d == read_exact(n.rest, n.val)
                      IN  IF d.kind # "Ok" THEN RErr(d.err)
                          ELSE ROk(<<t.val>> \o d.val, d.rest)

\* ------------------------------------------------------- write.rs
write_u16_be(v) == <<(v \div 256) % 256, v % 256>>

\* Ipv4Addr::octets
write_ipv4addr(a) == a

\* Ipv6Addr::octets: each 16-bit group as two bytes, high byte first.
RECURSIVE write_ipv6addr(_)
write_ipv6addr(a) ==
    IF a = <<>> THEN <<>>
    ELSE <<Head(a) \div 256, Head(a) % 256>> \o write_ipv6addr(Tail(a))

\* write_segment with the hash length taken from the digest alone.
write_segment_digest_len(s) ==
    write_u64_varint(code(s)) \o
        (CASE s.tag = "IP4" -> write_ipv4addr(s.arg)
           [] s.tag = "IP6" -> write_ipv6addr(s.arg)
           [] s.tag \in PortTags -> write_u16_be(s.arg[1])
           [] s.tag = "Ipfs" ->
                write_u64_varint(Len(digest(s.arg))) \o write_multihash(s.arg)
           [] s.tag \in BareTags -> <<>>)

write_segment(s) ==
    write_u64_varint(code(s)) \o
        (CASE s.tag = "IP4" -> write_ipv4addr(s.arg)
           [] s.tag = "IP6" -> write_ipv6addr(s.arg)
           [] s.tag \in PortTags -> write_u16_be(s.arg[1])
           [] s.tag = "Ipfs" ->
                write_u64_varint(output_len(s.arg)) \o write_multihash(s.arg)
           [] s.tag \in BareTags -> <<>>)

RECURSIVE write_multiaddr(_)
write_multiaddr(a) ==
    IF a = <<>> THEN <<>> ELSE write_segment(Head(a)) \o write_multiaddr(Tail(a))

\* ------------------------------------------------------- read.rs
read_u16_be(s) ==
    LET r == read_exact(s, 2)
    IN  IF r.kind # "Ok" THEN r ELSE ROk(<<r.val[1] * 256 + r.val[2]>>, r.rest)

\* Ipv4Addr::from([u8; 4])
read_ipv4addr(s) == read_exact(s, 4)

\* Ipv6Addr::from([u8; 16])
read_ipv6addr(s) ==
    LET r == read_exact(s, 16)
    IN  IF r.kind # "Ok" THEN r
        ELSE ROk([i \in 1..8 |-> r.val[2 * i - 1] * 256 + r.val[2 * i]], r.rest)

\* check_empty: one more read must return no byte.
check_empty(s) ==
    IF s = <<>> THEN ROk(<<>>, s) ELSE RErr("Unexpected extra bytes")

\* The payload of a segment whose code has been read; val is the segment.
WithTag(t, r) == IF r.kind # "Ok" THEN r ELSE ROk(Seg(t, r.val), r.rest)

\* Code 421: the hash is read from io::Read::take(self, length); the bytes
\* taken from the stream are those the window handed out.
read_ipfs(s) ==
    LET n == read_u64_varint(s)
    IN  IF n.kind # "Ok" THEN RErr(n.err)
        ELSE LET hash_bytes == Take(n.rest, n.val)
                 h == read_multihash(hash_bytes)
             IN  IF h.kind # "Ok" THEN RErr(h.err)
                 ELSE IF check_empty(h.rest).kind # "Ok"
                      THEN RErr(check_empty(h.rest).err)
                 ELSE ROk(Seg("Ipfs", h.val), Drop(n.rest, Len(hash_bytes)))

\* read_segment with the arms of 443 and 480 exchanged.
read_segment_swapped(s, c) ==
    CASE c = 4   -> WithTag("IP4", read_ipv4addr(s))
      [] c = 6   -> WithTag("Tcp", read_u16_be(s))
      [] c = 17  -> WithTag("Udp", read_u16_be(s))
      [] c = 33  -> WithTag("Dccp", read_u16_be(s))
      [] c = 41  -> WithTag("IP6", read_ipv6addr(s))
      [] c = 132 -> WithTag("Sctp", read_u16_be(s))
      [] c = 301 -> ROk(Seg("Udt", <<>>), s)
      [] c = 302 -> ROk(Seg("Utp", <<>>), s)
      [] c = 421 -> read_ipfs(s)
      [] c = 443 -> ROk(Seg("Http", <<>>), s)
      [] c = 480 -> ROk(Seg("Https", <<>>), s)
      [] OTHER   -> RErr("Invalid code")

read_segment(s, c) ==
    CASE c = 4   -> WithTag("IP4", read_ipv4addr(s))
      [] c = 6   -> WithTag("Tcp", read_u16_be(s))
      [] c = 17  -> WithTag("Udp", read_u16_be(s))
      [] c = 33  -> WithTag("Dccp", read_u16_be(s))
      [] c = 41  -> WithTag("IP6", read_ipv6addr(s))
      [] c = 132 -> WithTag("Sctp", read_u16_be(s))
      [] c = 301 -> ROk(Seg("Udt", <<>>), s)
      [] c = 302 -> ROk(Seg("Utp", <<>>), s)
      [] c = 421 -> read_ipfs(s)
      [] c = 443 -> ROk(Seg("Https", <<>>), s)
      [] c = 480 -> ROk(Seg("Http", <<>>), s)
      [] OTHER   -> RErr("Invalid code")

try_read_segment(s) ==
    LET c == try_read_u64_varint(s)
    IN  IF c.kind = "End" THEN REnd
        ELSE IF c.kind = "Err" THEN RErr(c.err)
        ELSE read_segment(c.rest, c.val)

\* read_loop that stops at the first failing segment and keeps what it has.
RECURSIVE read_loop_lenient(_, _)
read_loop_lenient(s, segments) ==
    LET r == try_read_segment(s)
    IN  IF r.kind = "Ok" THEN read_loop_lenient(r.rest, Append(segments, r.val))
        ELSE Ok(segments)

RECURSIVE read_loop(_, _)
read_loop(s, segments) ==
    LET r == try_read_segment(s)
    IN  IF r.kind = "Err" THEN Err(r.err)
        ELSE IF r.kind = "Ok" THEN read_loop(r.rest, Append(segments, r.val))
        ELSE IF check_empty(s).kind # "Ok" THEN Err(check_empty(s).err)
        ELSE Ok(segments)

read_multiaddr(s) == read_loop(s, <<>>)

\* ------------------------------------------------------- multiaddr.rs
\* MultiAddr::from(segment)
From(seg) == <<seg>>

\* Add that puts the right operand's segments in front.
Add_front(self, rhs) == rhs \o self

\* impl Add<T> for MultiAddr: extend_from_slice(&rhs.into().segments)
Add(self, rhs) == self \o rhs

\* split_off_last taking the first segment instead of the last.
split_off_first(self) ==
    IF Len(self) = 0 THEN NoRes ELSE Ok(<<Tail(self), Head(self)>>)

\* split_off_last: Vec::pop, then the shortened vector with the popped tail.
\* val is <<prefix, tail>>; kind "None" when the vector was empty.
split_off_last(self) ==
    IF Len(self) = 0 THEN NoRes
    ELSE Ok(<<SubSeq(self, 1, Len(self) - 1), self[Len(self)]>>)

\* ------------------------------------------------------- text helpers
HexDigits == <<"0", "1", "2", "3", "4", "5", "6", "7", "8", "9",
               "a", "b", "c", "d", "e", "f">>

IsDigit(c) == \E i \in 1..10 : HexDigits[i] = c

IsHex(c) == \E i \in 1..16 : HexDigits[i] = c

DigitVal(c) == (CHOOSE i \in 1..16 : HexDigits[i] = c) - 1

\* Digits of n in the given base (10 or 16), most significant first.
RECURSIVE Numeral(_, _)
Numeral(n, base) ==
    IF n < base THEN <<HexDigits[n + 1]>>
    ELSE Append(Numeral(n \div base, base), HexDigits[(n % base) + 1])

RECURSIVE Join(_, _)
Join(parts, sep) ==
    IF parts = <<>> THEN <<>>
    ELSE IF Len(parts) = 1 THEN parts[1]
    ELSE parts[1] \o <<sep>> \o Join(Tail(parts), sep)

\* str::split(sep): the pieces between separators, always at least one.
RECURSIVE SplitAcc(_, _, _)
SplitAcc(s, sep, cur) ==
    IF s = <<>> THEN <<cur>>
    ELSE IF Head(s) = sep THEN <<cur>> \o SplitAcc(Tail(s), sep, <<>>)
    ELSE SplitAcc(Tail(s), sep, Append(cur, Head(s)))

Split(s, sep) == SplitAcc(s, sep, <<>>)

Reverse(s) == [i \in 1..Len(s) |-> s[Len(s) + 1 - i]]

\* ------------------------------------------------------- base-58 collaborator
B58 == <<"1", "2", "3", "4", "5", "6", "7", "8", "9",
         "A", "B", "C", "D", "E", "F", "G", "H", "J", "K", "L", "M", "N",
         "P", "Q", "R", "S", "T", "U", "V", "W", "X", "Y", "Z",
         "a", "b", "c", "d", "e", "f", "g", "h", "i", "j", "k", "m",
         "n", "o", "p", "q", "r", "s", "t", "u", "v", "w", "x", "y", "z">>

IsB58(c) == \E i \in 1..Len(B58) : B58[i] = c

B58Val(c) == (CHOOSE i \in 1..Len(B58) : B58[i] = c) - 1

\* One step of a radix conversion on a little-endian digit string:
\* digits * m + carry, in base b.
RECURSIVE MulAdd(_, _, _, _)
MulAdd(digits, m, carry, b) ==
    IF digits = <<>>
    THEN IF carry = 0 THEN <<>> ELSE <<carry % b>> \o MulAdd(<<>>, m, carry \div b, b)
    ELSE LET x == Head(digits) * m + carry
         IN  <<x % b>> \o MulAdd(Tail(digits), m, x \div b, b)

RECURSIVE Radix(_, _, _, _)
Radix(ds, from, to, acc) ==
    IF ds = <<>> THEN acc ELSE Radix(Tail(ds), from, to, MulAdd(acc, from, Head(ds), to))

RECURSIVE LeadingCount(_, _)
LeadingCount(s, x) ==
    IF s # <<>> /\ Head(s) = x THEN 1 + LeadingCount(Tail(s), x) ELSE 0

\* to_base58: one "1" per leading zero byte, then the number in base 58.
to_base58(bytes) ==
    LET z == LeadingCount(bytes, 0)
        ds == Reverse(Radix(Drop(bytes, z), 256, 58, <<>>))
    IN  [i \in 1..z |-> "1"] \o [i \in 1..Len(ds) |-> B58[ds[i] + 1]]

\* from_base58: fails on a character outside the alphabet.
from_base58(s) ==
    IF \E i \in 1..Len(s) : ~IsB58(s[i]) THEN Err("base58")
    ELSE LET z == LeadingCount(s, "1")
             vs == [i \in 1..(Len(s) - z) |-> B58Val(s[z + i])]
         IN  Ok([i \in 1..z |-> 0] \o Reverse(Radix(vs, 58, 256, <<>>)))

\* ------------------------------------------------------- std text forms
\* Display for u16
fmt_u16(n) == Numeral(n, 10)

\* Display for Ipv4Addr: dotted decimal
fmt_ipv4(a) == Join([i \in 1..4 |-> Numeral(a[i], 10)], ".")

\* Length of the run of zero groups of g that starts at i.
RECURSIVE ZeroRun(_, _)
ZeroRun(g, i) == IF i <= Len(g) /\ g[i] = 0 THEN 1 + ZeroRun(g, i + 1) ELSE 0

\* Display for Ipv6Addr: hex groups, the first longest run of two or more
\* zero groups written "::".
fmt_ipv6(g) ==
    LET longest == CHOOSE i \in 1..8 :
                       /\ \A j \in 1..8 : ZeroRun(g, j) <= ZeroRun(g, i)
                       /\ \A j \in 1..(i - 1) : ZeroRun(g, j) < ZeroRun(g, i)
        n == ZeroRun(g, longest)
        hex(from, to) == Join([i \in 1..(to - from + 1) |-> Numeral(g[from + i - 1], 16)], ":")
    IN  IF n > 1
        THEN hex(1, longest - 1) \o <<":", ":">> \o hex(longest + n, 8)
        ELSE hex(1, 8)

\* u16::from_str: an optional "+", then decimal digits, no overflow.
RECURSIVE parse_digits(_, _, _)
parse_digits(s, acc, max) ==
    IF s = <<>> THEN Ok(<<acc>>)
    ELSE IF ~IsDigit(Head(s)) THEN Err("Num")
    ELSE IF acc * 10 + DigitVal(Head(s)) > max THEN Err("Num")
    ELSE parse_digits(Tail(s), acc * 10 + DigitVal(Head(s)), max)

parse_u16(s) ==
    LET d == IF s # <<>> /\ Head(s) = "+" THEN Tail(s) ELSE s
    IN  IF d = <<>> THEN Err("Num") ELSE parse_digits(d, 0, 65535)

\* Ipv4Addr::from_str: four decimal octets of one to three digits.
parse_ipv4(s) ==
    LET parts == Split(s, ".")
        octet(p) == IF p = <<>> \/ Len(p) > 3 THEN Err("Addr") ELSE parse_digits(p, 0, 255)
    IN  IF Len(parts) # 4 \/ \E i \in 1..4 : octet(parts[i]).kind # "Ok"
        THEN Err("Addr")
        ELSE Ok([i \in 1..4 |-> octet(parts[i]).val[1]])

RECURSIVE parse_hex(_, _)
parse_hex(s, acc) ==
    IF s = <<>> THEN acc ELSE parse_hex(Tail(s), acc * 16 + DigitVal(Head(s)))

\* Ipv6Addr::from_str, without the embedded dotted-decimal forms: groups of one
\* to four hex digits, at most one "::" standing for the missing zero groups.
parse_ipv6(s) ==
    LET gaps == {i \in 1..(Len(s) - 1) : s[i] = ":" /\ s[i + 1] = ":"}
        at == IF gaps = {} THEN 0 ELSE CHOOSE i \in gaps : \A j \in gaps : i <= j
        groups(x) == IF x = <<>> THEN <<>> ELSE Split(x, ":")
        head == IF at = 0 THEN groups(s) ELSE groups(SubSeq(s, 1, at - 1))
        tail == IF at = 0 THEN <<>> ELSE groups(Drop(s, at + 1))
        all == head \o tail
        good(p) == Len(p) \in 1..4 /\ \A i \in 1..Len(p) : IsHex(p[i])
        fill == IF at = 0 THEN 0 ELSE 8 - Len(all)
    IN  IF \E i \in 1..Len(all) : ~good(all[i]) THEN Err("Addr")
        ELSE IF at = 0 /\ Len(all) # 8 THEN Err("Addr")
        ELSE IF at # 0 /\ Len(all) > 7 THEN Err("Addr")
        ELSE Ok([i \in 1..Len(head) |-> parse_hex(head[i], 0)]
                    \o [i \in 1..fill |-> 0]
                    \o [i \in 1..Len(tail) |-> parse_hex(tail[i], 0)])

\* ------------------------------------------------------- display.rs
fmt_segment(s) ==
    <<"/">> \o name(s) \o
        (CASE s.tag = "IP4" -> <<"/">> \o fmt_ipv4(s.arg)
           [] s.tag = "IP6" -> <<"/">> \o fmt_ipv6(s.arg)
           [] s.tag \in PortTags -> <<"/">> \o fmt_u16(s.arg[1])
           [] s.tag = "Ipfs" -> <<"/">> \o to_base58(write_multihash(s.arg))
           [] s.tag \in BareTags -> <<>>)

RECURSIVE fmt_multiaddr(_)
fmt_multiaddr(a) ==
    IF a = <<>> THEN <<>> ELSE fmt_segment(Head(a)) \o fmt_multiaddr(Tail(a))

\* ------------------------------------------------------- parse.rs
\* The result of one call of segment_from_strs on the token iterator strs:
\* "Some" segment with the tokens left, "None" when the iterator was empty.
PSome(seg, rest) == [kind |-> "Some", val |-> seg, rest |-> rest, err |-> "", tok |-> <<>>]

PNone == [kind |-> "None", val |-> <<>>, rest |-> <<>>, err |-> "", tok |-> <<>>]

PErr(e, t) == [kind |-> "Err", val |-> <<>>, rest |-> <<>>, err |-> e, tok |-> t]

\* The "ipfs" arm: base-58 decode the token, then read a multihash from the
\* front of the decoded bytes.
parse_ipfs(s) ==
    LET bytes == from_base58(s)
    IN  IF bytes.kind # "Ok" THEN bytes
        ELSE LET h == read_multihash(bytes.val)
             IN  IF h.kind # "Ok" THEN Err("Io") ELSE Ok(h.val)

\* The token strs.next() yields, "" standing in when there is none.
next_tok(rest) == IF rest = <<>> THEN <<>> ELSE Head(rest)

\* strs.next().ok_or(missing_data), then r, the payload parser's result on
\* that token.
with_payload(t, rest, r) ==
    IF rest = <<>> THEN PErr("missing segment data", <<>>)
    ELSE IF r.kind # "Ok" THEN PErr(r.err, <<>>)
    ELSE PSome(Seg(t, r.val), Tail(rest))

\* segment_from_strs whose "udt" arm also takes the token after the name.
segment_from_strs_greedy(strs) ==
    IF strs = <<>> THEN PNone
    ELSE LET s == Head(strs)
             rest == Tail(strs)
         IN  CASE s = <<"i", "p", "4">> -> with_payload("IP4", rest, parse_ipv4(next_tok(rest)))
               [] s = <<"i", "p", "6">> -> with_payload("IP6", rest, parse_ipv6(next_tok(rest)))
               [] s = <<"u", "d", "p">> -> with_payload("Udp", rest, parse_u16(next_tok(rest)))
               [] s = <<"d", "c", "c", "p">> -> with_payload("Dccp", rest, parse_u16(next_tok(rest)))
               [] s = <<"s", "c", "t", "p">> -> with_payload("Sctp", rest, parse_u16(next_tok(rest)))
               [] s = <<"t", "c", "p">> -> with_payload("Tcp", rest, parse_u16(next_tok(rest)))
               [] s = <<"i", "p", "f", "s">> -> with_payload("Ipfs", rest, parse_ipfs(next_tok(rest)))
               [] s = <<"u", "d", "t">> ->
                    PSome(Seg("Udt", <<>>), IF rest = <<>> THEN rest ELSE Tail(rest))
               [] s = <<"u", "t", "p">> -> PSome(Seg("Utp", <<>>), rest)
               [] s = <<"h", "t", "t", "p">> -> PSome(Seg("Http", <<>>), rest)
               [] s = <<"h", "t", "t", "p", "s">> -> PSome(Seg("Https", <<>>), rest)
               [] OTHER -> PErr("unrecognised segment type", s)

segment_from_strs(strs) ==
    IF strs = <<>> THEN PNone
    ELSE LET s == Head(strs)
             rest == Tail(strs)
         IN  CASE s = <<"i", "p", "4">> -> with_payload("IP4", rest, parse_ipv4(next_tok(rest)))
               [] s = <<"i", "p", "6">> -> with_payload("IP6", rest, parse_ipv6(next_tok(rest)))
               [] s = <<"u", "d", "p">> -> with_payload("Udp", rest, parse_u16(next_tok(rest)))
               [] s = <<"d", "c", "c", "p">> -> with_payload("Dccp", rest, parse_u16(next_tok(rest)))
               [] s = <<"s", "c", "t", "p">> -> with_payload("Sctp", rest, parse_u16(next_tok(rest)))
               [] s = <<"t", "c", "p">> -> with_payload("Tcp", rest, parse_u16(next_tok(rest)))
               [] s = <<"i", "p", "f", "s">> -> with_payload("Ipfs", rest, parse_ipfs(next_tok(rest)))
               [] s = <<"u", "d", "t">> -> PSome(Seg("Udt", <<>>), rest)
               [] s = <<"u", "t", "p">> -> PSome(Seg("Utp", <<>>), rest)
               [] s = <<"h", "t", "t", "p">> -> PSome(Seg("Http", <<>>), rest)
               [] s = <<"h", "t", "t", "p", "s">> -> PSome(Seg("Https", <<>>), rest)
               [] OTHER -> PErr("unrecognised segment type", s)

RECURSIVE parse_loop(_, _)
parse_loop(strs, segments) ==
    LET r == segment_from_strs(strs)
    IN  IF r.kind = "Err" THEN ErrTok(r.err, r.tok)
        ELSE IF r.kind = "Some" THEN parse_loop(r.rest, Append(segments, r.val))
        ELSE Ok(segments)

\* Bytes of a char in UTF-8.
Utf8Len(c) == IF c = "U+00E9" THEN 2 ELSE 1

\* &s[0..1] panics unless byte offset 1 is inside s and on a char boundary.
from_str(s) ==
    IF s = <<>> \/ Utf8Len(s[1]) # 1 THEN Panic
    ELSE IF s[1] # "/" THEN Err("didn't start with /")
    ELSE parse_loop(Split(Tail(s), "/"), <<>>)

\* ------------------------------------------------------- inputs
\* Bytes appended after an encoded address: two invalid codes (0, 2), a code
\* that needs a payload (6), and the first byte of the two-byte code 301
\* (173, completed by 2).
TrailBytes == {0, 2, 6, 173}

\* Text appended after a rendered address.
TextPieces ==
    {<<"/">> \o name(Variant(t)) : t \in Tags}
        \cup { <<"/">>,
               <<"/", "2", "2">>,
               <<"/", "6", "5", "5", "3", "6">>,
               <<"/", "I", "P", "4">>,
               <<"/", "1", ".", "2", ".", "3", ".", "4">>,
               <<"/", ":", ":", "1">>,
               <<"/", "0">>,
               <<"/", "5", "d", "r">>,
               <<"u", "d", "t">>,
               <<"U+00E9">> }

NoEdit == [kind |-> "none", n |-> 0]

\* Byte values of the blobs offered as an ipfs payload: the hash tag 17, the
\* digest lengths 0 and 1, a digest byte.
BlobBytes == {0, 1, 17, 213}

\* The blobs of exactly n bytes.
Blobs(n) == [1..n -> BlobBytes]

\* Segments of the right-hand operands of address + address.
OperandSegments == {Seg("Tcp", <<22>>), Seg("Udt", <<>>), Seg("Ipfs", <<17, 213>>)}

\* The addresses of exactly n operand segments.
Operands(n) == [1..n -> OperandSegments]

\* ------------------------------------------------------- the machine
Init ==
    /\ addr = <<>>
    /\ buf = <<>>
    /\ str = <<>>
    /\ trail = <<>>
    /\ edit = NoEdit
    /\ src = "none"
    /\ res = NoRes

\* addr + segment
Push(seg) ==
    /\ src = "none"
    /\ Len(addr) < MaxItems
    /\ addr' = Add(addr, From(seg))
    /\ UNCHANGED <<buf, str, trail, edit, src, res>>

\* buffer.write_multiaddr(&addr) on an empty Vec
WriteMultiaddr ==
    /\ src = "none"
    /\ buf' = write_multiaddr(addr)
    /\ src' = "bin"
    /\ UNCHANGED <<addr, str, trail, edit, res>>

\* The caller appends a byte to the buffer.
PushByte(b) ==
    /\ src = "bin" /\ res = NoRes /\ edit = NoEdit
    /\ Len(addr) + Len(trail) < MaxItems
    /\ buf' = Append(buf, b)
    /\ trail' = Append(trail, b)
    /\ UNCHANGED <<addr, str, edit, src, res>>

\* The caller hands over the buffer without its last n bytes.
Truncate(n) ==
    /\ src = "bin" /\ res = NoRes /\ edit = NoEdit /\ trail = <<>>
    /\ Len(addr) < MaxItems
    /\ n \in 1..Len(buf)
    /\ buf' = SubSeq(buf, 1, Len(buf) - n)
    /\ edit' = [kind |-> "cut", n |-> n]
    /\ UNCHANGED <<addr, str, trail, src, res>>

\* The caller hands over the buffer with byte i incremented.
Bump(i) ==
    /\ src = "bin" /\ res = NoRes /\ edit = NoEdit /\ trail = <<>>
    /\ Len(addr) < MaxItems
    /\ i \in 1..Len(buf)
    /\ buf' = [buf EXCEPT ![i] = (@ + 1) % 256]
    /\ edit' = [kind |-> "bump", n |-> i]
    /\ UNCHANGED <<addr, str, trail, src, res>>

\* The caller replaces the code of a one-segment encoding by the code c.
Recode(c) ==
    /\ src = "bin" /\ res = NoRes /\ edit = NoEdit /\ trail = <<>>
    /\ Len(addr) = 1
    /\ c # code(addr[1])
    /\ buf' = write_u64_varint(c) \o Drop(buf, Len(write_u64_varint(code(addr[1]))))
    /\ edit' = [kind |-> "recode", n |-> c]
    /\ UNCHANGED <<addr, str, trail, src, res>>

\* (&buf[..]).read_multiaddr()
ReadMultiaddr ==
    /\ src = "bin" /\ res = NoRes
    /\ res' = read_multiaddr(buf)
    /\ UNCHANGED <<addr, buf, str, trail, edit, src>>

\* addr.to_string()
Display ==
    /\ src = "none"
    /\ str' = fmt_multiaddr(addr)
    /\ src' = "text"
    /\ UNCHANGED <<addr, buf, trail, edit, res>>

\* The caller appends text to the string.
PushStr(piece) ==
    /\ src = "text" /\ res = NoRes
    /\ Len(addr) + Len(trail) < MaxItems
    /\ str' = str \o piece
    /\ trail' = Append(trail, piece)
    /\ UNCHANGED <<addr, buf, edit, src, res>>

\* str.parse::<MultiAddr>()
FromStr ==
    /\ src = "text" /\ res = NoRes
    /\ res' = from_str(str)
    /\ UNCHANGED <<addr, buf, str, trail, edit, src>>

\* addr.split_off_last(); addr keeps the value the call consumed.
SplitOffLast ==
    /\ src = "none"
    /\ res' = split_off_last(addr)
    /\ src' = "split"
    /\ UNCHANGED <<addr, buf, str, trail, edit>>

\* (addr + b) + c and addr + (b + c); res.val keeps b, c, addr + b and the
\* two sums.
Concat(b, c) ==
    /\ src = "none"
    /\ res' = Ok(<<b, c, Add(addr, b), Add(Add(addr, b), c), Add(addr, Add(b, c))>>)
    /\ src' = "add"
    /\ UNCHANGED <<addr, buf, str, trail, edit>>

\* The blob B offered as the ipfs payload to both decoders: to from_str as
\* the token "/ipfs/" + base58(B), to read_multiaddr framed as varint(421),
\* varint(len(B)), B. res.val keeps the two results and B.
DecodeBlob(B) ==
    /\ src = "none" /\ addr = <<>>
    /\ str' = <<"/">> \o name(Variant("Ipfs")) \o <<"/">> \o to_base58(B)
    /\ buf' = write_u64_varint(code(Variant("Ipfs"))) \o write_u64_varint(Len(B)) \o B
    /\ res' = Ok(<<from_str(str'), read_multiaddr(buf'), B>>)
    /\ src' = "blob"
    /\ UNCHANGED <<addr, trail, edit>>

Next ==
    \/ \E seg \in Segments : Push(seg)
    \/ \E n \in 0..MaxBlob : \E B \in Blobs(n) : DecodeBlob(B)
    \/ \E k \in 0..(MaxItems + 1 - Len(addr)) :
          \E j \in 0..(MaxItems + 1 - Len(addr) - k) :
             \E b \in Operands(k), c \in Operands(j) : Concat(b, c)
    \/ WriteMultiaddr
    \/ \E b \in TrailBytes : PushByte(b)
    \/ \E n \in 1..Len(buf) : Truncate(n)
    \/ \E i \in 1..Len(buf) : Bump(i)
    \/ \E c \in 0..MaxCode : Recode(c)
    \/ ReadMultiaddr
    \/ Display
    \/ \E piece \in TextPieces : PushStr(piece)
    \/ FromStr
    \/ SplitOffLast

Spec == Init /\ [][Next]_vars

\* ------------------------------------------------------- properties
Read == src = "bin" /\ res # NoRes

Parsed == src = "text" /\ res # NoRes

\* The buffer is exactly what write_multiaddr produced for addr.
Untouched == trail = <<>> /\ edit = NoEdit

\* C1: reading the bytes written for an address gives back that address.
C1_BinaryRoundTrip == (Read /\ Untouched) => res = Ok(addr)

C1_Witness ==
    /\ Read /\ Untouched
    /\ Len(addr) = 2 /\ addr[1].tag = "Ipfs" /\ addr[2].tag = "IP6"
    /\ res = Ok(addr)

\* C2: parsing the string rendered for an address, the empty address
\* included, gives back that address.
C2_TextRoundTrip == (Parsed /\ trail = <<>>) => res = Ok(addr)

\* C3: the string "/" parses to the empty address, and no accepted string
\* has an empty token where a segment name is expected.
C3_SlashIsEmptyAddress ==
    /\ (Parsed /\ str = <<"/">>) => res = Ok(<<>>)
    /\ (Parsed /\ str # <<>> /\ Head(str) = "/" /\ Head(Split(Tail(str), "/")) = <<>>
            /\ str # <<"/">>)
          => res.kind = "Err"

\* C4: a string that does not start with "/" is refused with the
\* leading-delimiter error, as an Err value.
C4_LeadingDelimiter ==
    (Parsed /\ (str = <<>> \/ Head(str) # "/")) => res = Err("didn't start with /")

WireTable ==
    [ Dccp  |-> [code |-> 33,  name |-> <<"d", "c", "c", "p">>, fixed |-> 2],
      Http  |-> [code |-> 480, name |-> <<"h", "t", "t", "p">>, fixed |-> 0],
      Https |-> [code |-> 443, name |-> <<"h", "t", "t", "p", "s">>, fixed |-> 0],
      IP4   |-> [code |-> 4,   name |-> <<"i", "p", "4">>, fixed |-> 4],
      IP6   |-> [code |-> 41,  name |-> <<"i", "p", "6">>, fixed |-> 16],
      Ipfs  |-> [code |-> 421, name |-> <<"i", "p", "f", "s">>, fixed |-> 0],
      Sctp  |-> [code |-> 132, name |-> <<"s", "c", "t", "p">>, fixed |-> 2],
      Tcp   |-> [code |-> 6,   name |-> <<"t", "c", "p">>, fixed |-> 2],
      Udp   |-> [code |-> 17,  name |-> <<"u", "d", "p">>, fixed |-> 2],
      Udt   |-> [code |-> 301, name |-> <<"u", "d", "t">>, fixed |-> 0],
      Utp   |-> [code |-> 302, name |-> <<"u", "t", "p">>, fixed |-> 0] ]

WireCodes == {WireTable[t].code : t \in Tags}

WireNames == {WireTable[t].name : t \in Tags}

TagOfCode(c) == CHOOSE t \in Tags : WireTable[t].code = c

\* The stream s stops inside a segment: inside a code varint, a fixed field,
\* the hash length varint, or the declared bytes of a hash.
RECURSIVE EndsInside(_)
EndsInside(s) ==
    IF s = <<>> THEN FALSE
    ELSE LET c == read_u64_varint(s)
         IN  IF c.kind # "Ok" THEN TRUE
             ELSE IF c.val \notin WireCodes THEN FALSE
             ELSE IF c.val = 421
                  THEN LET n == read_u64_varint(c.rest)
                       IN  IF n.kind # "Ok" THEN TRUE
                           ELSE IF Len(n.rest) < n.val THEN TRUE
                           ELSE EndsInside(Drop(n.rest, n.val))
             ELSE LET k == WireTable[TagOfCode(c.val)].fixed
                  IN  IF Len(c.rest) < k THEN TRUE ELSE EndsInside(Drop(c.rest, k))

\* C6: a stream that stops at a segment boundary reads as the segments before
\* the boundary; a stream that stops inside a segment is refused.
C6_EndOfStreamPolicy ==
    Read =>
        /\ buf = <<>> => res = Ok(<<>>)
        /\ \A k \in 0..Len(addr) :
              (edit.kind = "cut" /\ buf = write_multiaddr(SubSeq(addr, 1, k)))
                  => res = Ok(SubSeq(addr, 1, k))
        /\ EndsInside(buf) => res.kind = "Err"

\* code() and name() agree with the wire table and are injective.
TablesAgree ==
    /\ \A t \in Tags :
          /\ code(Variant(t)) = WireTable[t].code
          /\ name(Variant(t)) = WireTable[t].name
    /\ \A t, u \in Tags :
          t # u => /\ code(Variant(t)) # code(Variant(u))
                   /\ name(Variant(t)) # name(Variant(u))

\* C7: code() and name() take the values of the wire table, no two variants
\* share either, the reader yields a variant only for its own code and
\* refuses every code outside the table with "Invalid code", and the parser
\* yields a variant only for its own name and refuses every other token with
\* the unrecognised-segment-type error naming it.
C7_DispatchInverse ==
    /\ TablesAgree
    /\ (Read /\ buf # <<>> /\ read_u64_varint(buf).kind = "Ok") =>
          LET c == read_u64_varint(buf).val
          IN  /\ c \notin WireCodes => res = Err("Invalid code")
              /\ res.kind = "Ok" => res.val # <<>> /\ code(res.val[1]) = c
    /\ (Read /\ Untouched /\ addr # <<>>) =>
          res.kind = "Ok" /\ res.val[1].tag = addr[1].tag
    /\ (Parsed /\ str # <<>> /\ Head(str) = "/") =>
          LET n == Head(Split(Tail(str), "/"))
          IN  /\ n \notin WireNames => res = ErrTok("unrecognised segment type", n)
              /\ res.kind = "Ok" => res.val # <<>> /\ name(res.val[1]) = n
    /\ (Parsed /\ trail = <<>> /\ addr # <<>>) =>
          res.kind = "Ok" /\ res.val[1].tag = addr[1].tag

C7_Witness ==
    /\ Read /\ edit = [kind |-> "recode", n |-> 443]
    /\ addr[1].tag = "Udt"
    /\ res = Ok(<<Seg("Https", <<>>)>>)

BareNames == {WireTable[t].name : t \in BareTags}

PayloadNames == WireNames \ BareNames

\* The tokens toks are exactly the names of segs in order, each payload-bearing
\* name followed by one payload token and each bare name by none.
RECURSIVE NamesMatch(_, _)
NamesMatch(toks, segs) ==
    IF segs = <<>> THEN toks = <<>>
    ELSE LET k == IF Head(segs).tag \in BareTags THEN 1 ELSE 2
         IN  /\ Len(toks) >= k
             /\ Head(toks) = WireTable[Head(segs).tag].name
             /\ NamesMatch(Drop(toks, k), Tail(segs))

\* The appended pieces are "/" and a bare name each, but for the last, which
\* is "/" and a payload-bearing name.
EndsWithBareThenPayloadName ==
    /\ trail # <<>>
    /\ \A i \in 1..Len(trail) :
          /\ Head(trail[i]) = "/"
          /\ IF i < Len(trail) THEN Tail(trail[i]) \in BareNames
                               ELSE Tail(trail[i]) \in PayloadNames

\* C8: a payload-bearing name takes two tokens and a bare name one, so the
\* token after a bare name is read as a name; a payload-bearing name in the
\* last token fails with "missing segment data".
C8_TokenConsumption ==
    (Parsed /\ str # <<>> /\ Head(str) = "/") =>
        LET toks == Split(Tail(str), "/")
        IN  /\ res.kind = "Ok" => NamesMatch(toks, res.val)
            /\ (Len(toks) >= 2 /\ toks[1] \in BareNames /\ toks[2] \notin WireNames)
                  => res = ErrTok("unrecognised segment type", toks[2])
            /\ EndsWithBareThenPayloadName => res = Err("missing segment data")

C8_Witness ==
    /\ Parsed
    /\ trail = << <<"/", "u", "d", "t">>, <<"/", "t", "c", "p">> >>
    /\ res = Err("missing segment data")

\* C9: every call ends in Ok with the whole address or in Err; the error is
\* that of the first offending element from the left, also when valid
\* segments precede it, and no value is made up for a bad payload.
C9_AtomicFailure ==
    /\ (Read \/ Parsed) => res.kind \in {"Ok", "Err"}
    /\ (Read /\ edit = NoEdit /\ trail # <<>> /\ trail[1] \in {0, 2})
          => res = Err("Invalid code")
    /\ (Parsed /\ trail # <<>> /\ trail[1] = <<"/", "I", "P", "4">>
            /\ (Len(trail) > 1 => Head(trail[2]) = "/"))
          => res = ErrTok("unrecognised segment type", <<"I", "P", "4">>)
    /\ (Parsed /\ Len(trail) > 1 /\ trail[1] = <<"/", "t", "c", "p">>
            /\ trail[2] = <<"/", "6", "5", "5", "3", "6">>)
          => res = Err("Num")

\* C10: split_off_last gives nothing exactly for the empty address; otherwise
\* the prefix holds all segments but the last in order, the tail is the last
\* segment, and prefix + tail is the address.
C10_SplitOffLast ==
    src = "split" =>
        /\ res = NoRes <=> addr = <<>>
        /\ addr # <<>> =>
              /\ res.kind = "Ok"
              /\ Len(res.val[1]) = Len(addr) - 1
              /\ \A i \in 1..Len(res.val[1]) : res.val[1][i] = addr[i]
              /\ res.val[2] = addr[Len(addr)]
              /\ Add(res.val[1], From(res.val[2])) = addr

C10_Witness ==
    /\ src = "split"
    /\ Len(addr) = 2 /\ addr[1] # addr[2]
    /\ res = Ok(<<<<addr[1]>>, addr[2]>>)

\* C11: a + b is a's segments followed by b's, order and duplicates kept, the
\* empty address is a left and right identity, and (a + b) + c is a + (b + c).
C11_Concatenation ==
    src = "add" =>
        LET b == res.val[1]
            c == res.val[2]
            ab == res.val[3]
        IN  /\ Len(ab) = Len(addr) + Len(b)
            /\ \A i \in 1..Len(addr) : ab[i] = addr[i]
            /\ \A i \in 1..Len(b) : ab[Len(addr) + i] = b[i]
            /\ b = <<>> => ab = addr
            /\ addr = <<>> => ab = b
            /\ res.val[4] = res.val[5]
            /\ Len(res.val[4]) = Len(addr) + Len(b) + Len(c)

C11_Witness ==
    /\ src = "add"
    /\ Len(addr) = 1 /\ Len(res.val[1]) = 1 /\ Len(res.val[2]) = 1
    /\ addr[1].tag = "IP4" /\ res.val[1][1].tag = "Tcp" /\ res.val[2][1].tag = "Tcp"
    /\ res.val[4] = <<addr[1], Seg("Tcp", <<22>>), Seg("Tcp", <<22>>)>>

\* The buffer opens with the code 421 and a declared hash length.
IpfsFrame ==
    LET c == read_u64_varint(buf)
    IN  c.kind = "Ok" /\ c.val = 421 /\ read_u64_varint(c.rest).kind = "Ok"

\* C12: the writer emits varint(421), a varint length L and exactly L bytes of
\* hash encoding; the reader fails with "Unexpected extra bytes" when the hash
\* decoder needs fewer than the L declared bytes, fails when it needs more,
\* and otherwise hands the bytes after the L declared ones to the next
\* segment.
C12_NestedHashFraming ==
    /\ \A seg \in Segments :
          seg.tag = "Ipfs" =>
              write_segment(seg) =
                  write_u64_varint(421)
                      \o write_u64_varint(Len(write_multihash(seg.arg)))
                      \o write_multihash(seg.arg)
    /\ (Read /\ IpfsFrame) =>
          LET n == read_u64_varint(read_u64_varint(buf).rest)
              h == read_multihash(n.rest)
              used == Len(n.rest) - Len(h.rest)
          IN  /\ (h.kind = "Ok" /\ used < n.val) => res = Err("Unexpected extra bytes")
              /\ (h.kind = "Ok" /\ used > n.val) => res.kind = "Err"
              /\ h.kind = "Err" => res.kind = "Err"
              /\ (h.kind = "Ok" /\ used = n.val) =>
                    LET after == read_multiaddr(Drop(n.rest, n.val))
                    IN  IF after.kind = "Ok"
                        THEN res = Ok(<<Seg("Ipfs", h.val)>> \o after.val)
                        ELSE res = after

\* The blob is a complete hash encoding followed by at least one more byte.
HashThenExtra(B) ==
    LET h == read_multihash(B)
    IN  h.kind = "Ok" /\ h.rest # <<>>

\* C13: a blob is accepted as the ipfs payload by the text parser exactly
\* when the binary reader accepts it, and a blob made of a complete hash
\* encoding followed by extra bytes is refused by both.
C13_SameHashPayloads ==
    src = "blob" =>
        LET text == res.val[1]
            bin == res.val[2]
            B == res.val[3]
        IN  /\ text.kind = "Ok" <=> bin.kind = "Ok"
            /\ HashThenExtra(B) => (text.kind # "Ok" /\ bin.kind # "Ok")

====
